---- MODULE Spec2Model ----
(***************************************************************************)
(* Model of src/extensions/petworld/model.ts: the StructureFromPetworld    *)
(* transform, buildModelsAssembly and the per-trajectory cache of          *)
(* ModelsAssembly it fills with createModelsAssemblies.                    *)
(*                                                                         *)
(* One trajectory is modelled.  Its mmCIF tables are chosen in Init and    *)
(* never change.  A build is a task with one suspension point, the await   *)
(* of the frame (line 57); everything after the await runs in one step,    *)
(* as JavaScript runs it.                                                  *)
(***************************************************************************)
EXTENDS Integers, Sequences, FiniteSets, TLC

VARIABLES
    isMmcif,               \* MmcifFormat.is(model.sourceData), the same for every frame
    pdbx_struct_assembly,  \* db.pdbx_struct_assembly: the id column, in row order
    pdbx_struct_assembly_gen, \* db.pdbx_struct_assembly_gen rows, with the PDB_model_num field
    modelsAssemblies,      \* (trajectory as any).__modelsAssemblies, Absent when undefined
    label,                 \* model.label of every frame
    pdbx_description,      \* model.entities.data.pdbx_description of every frame
    createCount,           \* how many times createModelsAssemblies has run
    task                   \* the builds: position, arguments and outcome of each

vars == <<isMmcif, pdbx_struct_assembly, pdbx_struct_assembly_gen,
          modelsAssemblies, label, pdbx_description, createCount, task>>

shared == <<modelsAssemblies, label, pdbx_description, createCount>>

----------------------------------------------------------------------------
(* Bounds of the model *)

MaxAsm == 2
MaxGen == 2
NumTasks == 2
UnitCount == 2

----------------------------------------------------------------------------
(* The trajectory: two frames, the models numbered 10 and 11 *)

FrameModelNum == <<10, 11>>
FrameCount == Len(FrameModelNum)
Frames == 1..FrameCount

\* frame.categories.pdbx_model.getField('name'): one name per model
pdbx_model == <<"model_10", "model_11">>

Entities == {1, 2}
\* model.atomicHierarchy.chains.label_entity_id of each frame
ChainEntityIds == <<{1}, {1, 2}>>

OrigLabel == "unnamed"
OrigDescription == <<"polymer">>

\* Structure.ofModel(model).units
Units == [i \in 1..UnitCount |-> i]

AssemblyIds == {"1", "a", "A"}
AsmNames == {"1", "a", "A", "Z"}
Expressions == {<<"1">>, <<"2", ",", "3">>}

\* The hidden field of the trajectory: undefined, or the list it holds
Absent == [defined |-> FALSE, value |-> <<>>]
Stored(list) == [defined |-> TRUE, value |-> list]

----------------------------------------------------------------------------
(* Helpers of other modules used by model.ts *)

\* String.prototype.toLowerCase on the identifiers the model uses
toLowerCase(s) ==
    CASE s = "A" -> "a"
      [] s = "Z" -> "z"
      [] OTHER -> s

OperNum(tok) ==
    CASE tok = "1" -> 1
      [] tok = "2" -> 2
      [] tok = "3" -> 3
      [] tok = "4" -> 4

RangeSeq(a, b) == [i \in 1..(b - a + 1) |-> a + i - 1]

\* Operator expression parser: comma lists and inclusive ascending ranges
RECURSIVE parseItems(_, _)
parseItems(expr, i) ==
    IF i > Len(expr) THEN <<>>
    ELSE IF i + 2 <= Len(expr) /\ expr[i + 1] = "-"
         THEN RangeSeq(OperNum(expr[i]), OperNum(expr[i + 2])) \o parseItems(expr, i + 4)
         ELSE <<OperNum(expr[i])>> \o parseItems(expr, i + 2)

parseExpression(expr) == parseItems(expr, 1)

\* operatorGroupsProvider(generators, matrices)(): one group per generator, in order
operatorGroups(generators) ==
    [i \in 1..Len(generators) |-> [operators |-> parseExpression(generators[i].expression)]]

\* The test of line 83: ma => ma.assembly.id.toLowerCase() === asmName
MatchesAsmName(ma, asmName) == toLowerCase(ma.id) = asmName

\* arrayFind with that test: the index of the first match, 0 when there is none
RECURSIVE FirstMatch(_, _, _)
FirstMatch(list, asmName, i) ==
    IF i > Len(list) THEN 0
    ELSE IF MatchesAsmName(list[i], asmName) THEN i
    ELSE FirstMatch(list, asmName, i + 1)

arrayFind(list, asmName) == FirstMatch(list, asmName, 1)

\* trajectory.getFrameAtIndex(i) under Task.resolveInContext: what the await can end in
FrameOutcomes(modelIndex) ==
    IF modelIndex + 1 \in Frames
    THEN {"ok", "FrameResolutionError", "Cancelled"}
    ELSE {"FrameResolutionError"}

----------------------------------------------------------------------------
(* createModelsAssemblies and createModelsAssembly *)

\* The rows of pdbx_struct_assembly_gen whose assembly_id is id (line 134)
RECURSIVE GenRowsOf(_, _, _)
GenRowsOf(gen, id, i) ==
    IF i > Len(gen) THEN <<>>
    ELSE IF gen[i].assembly_id # id THEN GenRowsOf(gen, id, i + 1)
    ELSE <<gen[i]>> \o GenRowsOf(gen, id, i + 1)

createModelsAssembly(asm, gen, index) ==
    LET id == asm[index]
        rows == GenRowsOf(gen, id, 1)
    IN  [id |-> id,
         generators |-> [i \in 1..Len(rows) |->
                            [assemblyId |-> id, expression |-> rows[i].oper_expression]],
         modelNums |-> [i \in 1..Len(rows) |-> rows[i].PDB_model_num]]

\* A builder that leaves out the assemblies no generator row names
createModelsAssemblies_skipEmpty(asm, gen) ==
    LET all == [i \in 1..Len(asm) |-> createModelsAssembly(asm, gen, i)]
        HasRows(ma) == Len(ma.modelNums) > 0
    IN  SelectSeq(all, HasRows)

createModelsAssemblies(asm, gen) ==
    IF Len(asm) = 0 THEN <<>>
    ELSE [i \in 1..Len(asm) |-> createModelsAssembly(asm, gen, i)]

----------------------------------------------------------------------------
(* buildModelsAssembly, after the await *)

NoUnits == <<>>
NoResult == [kind |-> "none", err |-> "", asm |-> "", units |-> NoUnits]
Failure(e) == [kind |-> "error", err |-> e, asm |-> "", units |-> NoUnits]
Success(id, us) == [kind |-> "structure", err |-> "", asm |-> id, units |-> us]

\* The cancellation noticed only after the patch and the cache step
Usable_cancelAfterPatch(outcome) == outcome \in {"ok", "Cancelled"} /\ isMmcif

\* The format test of line 58 left out
Usable_anyFormat(outcome) == outcome = "ok"

\* Lines 57-58: the statements after them run only for a resolved mmCIF model
Usable(outcome) == outcome = "ok" /\ isMmcif

\* The cache read before the await instead of after it
CacheAtCheck_beforeAwait(t) ==
    IF task[t].absentAtStart THEN Absent ELSE modelsAssemblies

\* Line 78: the cache as the build reads it, after the await
CacheAtCheck(t) == modelsAssemblies

\* A test that also takes the empty list for a missing cache
CacheMissing_emptyToo(cache) == ~cache.defined \/ Len(cache.value) = 0

\* Line 78: !(trajectory as any).__modelsAssemblies
CacheMissing(cache) == ~cache.defined

\* The two loops of lines 93-94 swapped
RECURSIVE Replicate_unitMajor(_, _)
Replicate_unitMajor(operators, units) ==
    IF units = <<>> THEN <<>>
    ELSE [i \in 1..Len(operators) |-> [unit |-> Head(units), oper |-> operators[i]]]
         \o Replicate_unitMajor(operators, Tail(units))

\* Lines 93-97: every unit under the first operator, then under the second, ...
RECURSIVE Replicate(_, _)
Replicate(operators, units) ==
    IF operators = <<>> THEN <<>>
    ELSE [i \in 1..Len(units) |-> [unit |-> units[i], oper |-> Head(operators)]]
         \o Replicate(Tail(operators), units)

\* Line 84 left out: a missing assembly gives a structure without units
Assemble_emptyOnMiss(list, asmName, modelIndex) ==
    LET found == arrayFind(list, asmName)
    IN  IF found = 0 THEN Success("", NoUnits)
        ELSE LET groups == operatorGroups(list[found].generators)
             IN  IF modelIndex + 1 \notin DOMAIN groups
                 THEN Failure("TypeError")
                 ELSE Success(list[found].id,
                              Replicate(groups[modelIndex + 1].operators, Units))

\* Lines 83-99: the lookup, the group of the model index and the replication
Assemble(list, asmName, modelIndex) ==
    LET found == arrayFind(list, asmName)
    IN  IF found = 0 THEN Failure("AssemblyNotFound")
        ELSE LET groups == operatorGroups(list[found].generators)
             IN  IF modelIndex + 1 \notin DOMAIN groups
                 THEN Failure("TypeError")
                 ELSE Success(list[found].id,
                              Replicate(groups[modelIndex + 1].operators, Units))

\* Lines 65-66: the label of the model at modelIndex
PatchedLabel(modelIndex) ==
    [label EXCEPT ![modelIndex + 1] = pdbx_model[modelIndex + 1]]

\* Lines 67-75: the description of every entity the model's chains name
PatchedDescription(modelIndex) ==
    [pdbx_description EXCEPT ![modelIndex + 1] =
        [e \in Entities |->
            IF e \in ChainEntityIds[modelIndex + 1]
            THEN <<pdbx_model[modelIndex + 1]>>
            ELSE pdbx_description[modelIndex + 1][e]]]

\* Lines 43-47: what the transform makes of the build's result
applyResult(s) ==
    IF s.kind = "error" THEN "Error"
    ELSE IF s.kind = "none" THEN "Null"
    ELSE "Structure"

\* Lines 57-99: what the task ends in.  The await throws when the frame is not
\* resolved, an undefined return follows for a source that is not mmCIF
buildResult(outcome, list, asmName, modelIndex) ==
    IF outcome # "ok" THEN Failure(outcome)
    ELSE IF ~isMmcif THEN NoResult
    ELSE Assemble(list, asmName, modelIndex)

----------------------------------------------------------------------------
(* The state machine *)

ModelIndices == 0..FrameCount

Idle ==
    [pc |-> "idle", caller |-> "", asmName |-> "", modelIndex |-> 0,
     absentAtStart |-> FALSE, constructed |-> FALSE,
     result |-> NoResult, stateObject |-> ""]

SeqsUpTo(S, n) == UNION {[1..k -> S] : k \in 0..n}

Distinct(seq) == \A i, j \in DOMAIN seq : i # j => seq[i] # seq[j]

GenAssemblyIds == {"1", "a"}

GenRows ==
    [assembly_id : GenAssemblyIds, oper_expression : Expressions,
     PDB_model_num : {FrameModelNum[f] : f \in Frames}]

\* The scenario of the specification: assembly "1", expression "1" for model 10
\* and expression "2,3" for model 11
ScenarioGen ==
    <<[assembly_id |-> "1", oper_expression |-> <<"1">>, PDB_model_num |-> 10],
      [assembly_id |-> "1", oper_expression |-> <<"2", ",", "3">>, PDB_model_num |-> 11]>>

InitShared ==
    /\ modelsAssemblies = Absent
    /\ label = [f \in Frames |-> OrigLabel]
    /\ pdbx_description = [f \in Frames |-> [e \in Entities |-> OrigDescription]]
    /\ createCount = 0

\* Any tables within the bounds, or a source that is not mmCIF and has none
InitTables ==
    \/ /\ isMmcif = TRUE
       /\ pdbx_struct_assembly \in {a \in SeqsUpTo(AssemblyIds, MaxAsm) : Distinct(a)}
       /\ pdbx_struct_assembly_gen \in SeqsUpTo(GenRows, MaxGen)
    \/ /\ isMmcif = FALSE
       /\ pdbx_struct_assembly = <<>>
       /\ pdbx_struct_assembly_gen = <<>>

Init ==
    /\ InitTables
    /\ InitShared
    /\ task = [t \in {1} |-> Idle]

\* The plugin: several transforms on one trajectory, on the scenario's tables
InitConcurrent ==
    /\ \/ /\ isMmcif = TRUE
          /\ pdbx_struct_assembly \in {<<>>, <<"1">>}
          /\ pdbx_struct_assembly_gen \in {<<>>, ScenarioGen}
       \/ /\ isMmcif = FALSE
          /\ pdbx_struct_assembly = <<>>
          /\ pdbx_struct_assembly_gen = <<>>
    /\ InitShared
    /\ task = [t \in 1..NumTasks |-> Idle]

Tasks == DOMAIN task

\* Task.create(...) runs up to the await of line 57
Begin(t, caller, asmName, modelIndex) ==
    /\ task[t].pc = "idle"
    /\ task' = [task EXCEPT ![t] =
                   [Idle EXCEPT !.pc = "awaiting", !.caller = caller,
                                !.asmName = asmName, !.modelIndex = modelIndex,
                                !.absentAtStart = ~modelsAssemblies.defined]]
    /\ UNCHANGED <<isMmcif, pdbx_struct_assembly, pdbx_struct_assembly_gen, shared>>

\* StructureFromPetworld.apply: buildModelsAssembly(a.data, '1', params.modelIndex)
StartApply(t) ==
    \E modelIndex \in ModelIndices : Begin(t, "apply", "1", modelIndex)

\* buildModelsAssembly(trajectory, asmName, modelIndex) called directly
StartBuild(t) ==
    \E asmName \in AsmNames, modelIndex \in ModelIndices :
        Begin(t, "direct", asmName, modelIndex)

\* The await of line 57 ends and the body runs to its end
Resume(t) ==
    /\ task[t].pc = "awaiting"
    /\ \E outcome \in FrameOutcomes(task[t].modelIndex) :
        LET usable == Usable(outcome)
            fill == usable /\ CacheMissing(CacheAtCheck(t))
            list == IF fill
                    THEN createModelsAssemblies(pdbx_struct_assembly, pdbx_struct_assembly_gen)
                    ELSE modelsAssemblies.value
            s == buildResult(outcome, list, task[t].asmName, task[t].modelIndex)
        IN  /\ modelsAssemblies' = IF usable THEN Stored(list) ELSE modelsAssemblies
            /\ createCount' = IF fill THEN createCount + 1 ELSE createCount
            /\ label' = IF usable THEN PatchedLabel(task[t].modelIndex) ELSE label
            /\ pdbx_description' =
                   IF usable THEN PatchedDescription(task[t].modelIndex)
                   ELSE pdbx_description
            /\ task' = [task EXCEPT ![t] =
                           [@ EXCEPT !.pc = "done", !.constructed = fill, !.result = s,
                                     !.stateObject = IF task[t].caller = "apply"
                                                     THEN applyResult(s) ELSE ""]]
    /\ UNCHANGED <<isMmcif, pdbx_struct_assembly, pdbx_struct_assembly_gen>>

\* The caller takes the outcome; the task object is gone
Finish(t) ==
    /\ task[t].pc = "done"
    /\ task' = [task EXCEPT ![t] = Idle]
    /\ UNCHANGED <<isMmcif, pdbx_struct_assembly, pdbx_struct_assembly_gen, shared>>

Next ==
    \/ \E t \in Tasks : StartApply(t)
    \/ \E t \in Tasks : StartBuild(t)
    \/ \E t \in Tasks : Resume(t)
    \/ \E t \in Tasks : Finish(t)

NextPlugin ==
    \/ \E t \in Tasks : StartApply(t)
    \/ \E t \in Tasks : Resume(t)
    \/ \E t \in Tasks : Finish(t)

Spec == Init /\ [][Next]_vars

SpecConcurrent == InitConcurrent /\ [][NextPlugin]_vars

----------------------------------------------------------------------------
(* Vocabulary of the properties *)

Done(t) == task[t].pc = "done"

\* The build of t got its frame: it did not end at the await
Resolved(t) ==
    Done(t) /\ task[t].result.err \notin {"FrameResolutionError", "Cancelled"}

\* The build of t ran the statements after the format test
Ran(t) == Resolved(t) /\ isMmcif

SameIgnoringCase(x, y) == toLowerCase(x) = toLowerCase(y)

\* The operators an expression of the tables stands for, written out
ExpectedOperators(expr) ==
    CASE expr = <<"1">> -> <<1>>
      [] expr = <<"2", ",", "3">> -> <<2, 3>>

\* The entries of the stored list whose id is the requested one, letter case aside
Candidates(t) ==
    {i \in DOMAIN modelsAssemblies.value :
        SameIgnoringCase(modelsAssemblies.value[i].id, task[t].asmName)}

\* The operators of a unit list, one per block of UnitCount units
OpersOf(units) ==
    [i \in 1..(Len(units) \div UnitCount) |-> units[(i - 1) * UnitCount + 1].oper]

\* The unit list of k operators on u units, operator-major
OperatorMajor(operators, units) ==
    [j \in 1..(Len(operators) * Len(units)) |->
        [unit |-> units[((j - 1) % Len(units)) + 1],
         oper |-> operators[((j - 1) \div Len(units)) + 1]]]

Untouched ==
    /\ label = [f \in Frames |-> OrigLabel]
    /\ pdbx_description = [f \in Frames |-> [e \in Entities |-> OrigDescription]]

----------------------------------------------------------------------------
(* C1: createModelsAssemblies runs at most once for the trajectory; the    *)
(* first build that reaches the cache step stores its result, and no later *)
(* step changes the stored list, the empty list included.                  *)
C1_BuiltOnce ==
    /\ [](/\ createCount <= 1
          /\ modelsAssemblies.defined <=> createCount = 1
          /\ \A t \in Tasks : Ran(t) => modelsAssemblies.defined)
    /\ [][modelsAssemblies.defined => modelsAssemblies' = modelsAssemblies]_vars

\* A later build that found the empty list stored and did not build it again
C1_Witness ==
    \E t \in Tasks :
        /\ Ran(t)
        /\ ~task[t].absentAtStart
        /\ ~task[t].constructed
        /\ modelsAssemblies = Stored(<<>>)
        /\ createCount = 1

(* C2: among builds that run concurrently and start before the cache       *)
(* exists, at most one finds the cache absent and constructs it.           *)
C2_OneConstructor ==
    /\ createCount <= 1
    /\ Cardinality({t \in Tasks : Done(t) /\ task[t].constructed}) <= 1

\* Two builds started before the cache existed, both ran, one constructed it
C2_Witness ==
    \E t1, t2 \in Tasks :
        /\ t1 # t2
        /\ Ran(t1) /\ Ran(t2)
        /\ task[t1].absentAtStart /\ task[t2].absentAtStart
        /\ task[t1].constructed /\ ~task[t2].constructed
        /\ task[t2].result.kind = "structure"

(* C3: a build that returns a structure returns k * u unit instances for   *)
(* the k operators of the group at the model index and the u units of the  *)
(* model, operator-major, each tagged with its operator.                   *)
C3_OperatorMajor ==
    \A t \in Tasks :
        (Done(t) /\ task[t].result.kind = "structure") =>
            LET ma == modelsAssemblies.value[arrayFind(modelsAssemblies.value, task[t].asmName)]
                ops == ExpectedOperators(ma.generators[task[t].modelIndex + 1].expression)
            IN  /\ Len(task[t].result.units) = Len(ops) * UnitCount
                /\ task[t].result.units = OperatorMajor(ops, Units)

\* A structure of two operators on at least two units
C3_Witness ==
    \E t \in Tasks :
        /\ Done(t) /\ task[t].result.kind = "structure"
        /\ UnitCount >= 2
        /\ OpersOf(task[t].result.units) = <<2, 3>>

(* C4: the group applied for model index i is the group of the generator   *)
(* row whose PDB_model_num is the number of the model at index i.          *)
C4_GroupOfModelNumber ==
    \A t \in Tasks :
        (Done(t) /\ task[t].result.kind = "structure") =>
            LET ma == modelsAssemblies.value[arrayFind(modelsAssemblies.value, task[t].asmName)]
            IN  \E i \in DOMAIN ma.modelNums :
                    /\ ma.modelNums[i] = FrameModelNum[task[t].modelIndex + 1]
                    /\ OpersOf(task[t].result.units) =
                           ExpectedOperators(ma.generators[i].expression)

(* C5: a build that reaches the lookup while no stored assembly has the    *)
(* requested id ends in AssemblyNotFound, which the transform passes on.   *)
C5_NotFound ==
    \A t \in Tasks :
        (Ran(t) /\ Candidates(t) = {}) =>
            /\ task[t].result = Failure("AssemblyNotFound")
            /\ task[t].caller = "apply" => task[t].stateObject = "Error"

\* "Z" requested while the list holds other assemblies
C5_Witness ==
    \E t \in Tasks :
        /\ Ran(t)
        /\ task[t].asmName = "Z"
        /\ Len(modelsAssemblies.value) > 0
        /\ task[t].result.err = "AssemblyNotFound"

(* C6: a stored assembly whose id equals the requested id ignoring letter  *)
(* case is selected, and the build does not end in AssemblyNotFound.       *)
C6_CaseInsensitive ==
    \A t \in Tasks :
        (Ran(t) /\ Candidates(t) # {}) =>
            /\ task[t].result.err # "AssemblyNotFound"
            /\ task[t].result.kind = "structure" =>
                   SameIgnoringCase(task[t].result.asm, task[t].asmName)

(* C7: when the assembly is found and has no group at the model index, the *)
(* build ends without an error, in a structure without units.              *)
C7_NoGroupNoError ==
    \A t \in Tasks :
        LET found == arrayFind(modelsAssemblies.value, task[t].asmName)
        IN  (/\ Ran(t)
             /\ found # 0
             /\ task[t].modelIndex + 1 > Len(modelsAssemblies.value[found].generators)) =>
                /\ task[t].result.kind # "error"
                /\ task[t].result.units = NoUnits

\* The rows of pdbx_struct_assembly_gen that name the assembly id
RowsNaming(id) ==
    {i \in DOMAIN pdbx_struct_assembly_gen : pdbx_struct_assembly_gen[i].assembly_id = id}

C9_FailedBuildChangesNothing ==
    [][\A t \in Tasks :
          (/\ task[t].pc = "awaiting"
           /\ task'[t].pc = "done"
           /\ task'[t].result.err \in {"FrameResolutionError", "Cancelled"})
          => UNCHANGED shared]_vars

\* A cancelled build of an mmCIF trajectory that left it as it was loaded
C9_Witness ==
    \E t \in Tasks :
        /\ Done(t)
        /\ task[t].result.err = "Cancelled"
        /\ isMmcif
        /\ Len(pdbx_struct_assembly) > 0
        /\ modelsAssemblies = Absent
        /\ Untouched

(* C10: for a source that is not mmCIF a build whose frame resolves        *)
(* returns no result, patches nothing and creates no cache, and the        *)
(* transform returns the null state object.                                *)
C10_UnsupportedFormat ==
    ~isMmcif =>
        /\ modelsAssemblies = Absent
        /\ createCount = 0
        /\ Untouched
        /\ \A t \in Tasks :
               Resolved(t) =>
                   /\ task[t].result = NoResult
                   /\ task[t].caller = "apply" => task[t].stateObject = "Null"

\* The transform applied to a source that is not mmCIF gave Null
C10_Witness ==
    \E t \in Tasks :
        /\ ~isMmcif
        /\ Resolved(t)
        /\ task[t].caller = "apply"
        /\ task[t].stateObject = "Null"

====
